---- MODULE Spec2Model ----
(***************************************************************************)
(* Room/session coordinator of src/src/socket.ts (setupSocket).            *)
(*                                                                         *)
(* The registry roomIdToState is a JavaScript Map: it is modelled as the   *)
(* sequence of its entries in insertion order (the order Map.entries()     *)
(* iterates in).  Every socket.on(...) callback runs to completion on the  *)
(* single Node event loop, so each handler is one atomic action.           *)
(* socket.emit / io.to(room).emit calls made by a handler are recorded, in *)
(* call order, in emits; the inbound event is recorded in last; pre holds  *)
(* the registry as it was when the handler started; creator remembers the  *)
(* socket whose joinRoom created each room of the registry, and announced  *)
(* the payload of the latest roomUpdate broadcast to it.                   *)
(***************************************************************************)
EXTENDS Integers, Sequences, FiniteSets, TLC

\* ---- bounds of the model ------------------------------------------------
NumConns == 5            \* sockets that connect during a run
MaxEvents == 5           \* inbound events handled during a run
FairEvents == 3          \* inbound events handled before the sockets only leave

\* ---- program constants ----------------------------------------------------
MaxPlayers == 4          \* room.players.length >= 4  -> roomFull
MinPlayers == 2          \* room.players.length < 2   -> error

Conns == 1..NumConns
RoomIds == {"r1", "r2"}
RoomInputs == RoomIds \cup {""}          \* "" is the falsy roomId
Names == {"", "Ann"}                     \* "" is the falsy name
Renamers == {1}                          \* sockets that also send a non-empty name
NamesOf(c) == IF c \in Renamers THEN Names ELSE {""}
DefaultName == "Player"
Choices == {"rock"}
TdChoices == {"truth"}
Texts == {"t"}
PayloadIds == {1, 2}                     \* ids a client may put in a playerChoice
TdIds == {1}                             \* ids a client may put in a td_* payload
Flags == {TRUE}
RelaySenders == {1, 2}                   \* sockets that send relay events
RelayRooms == {"r1"}                     \* roomId of the relay events
RelayOps == {"playerChoice", "td_choice", "td_challenge", "td_complete",
             "td_toggle", "td_response"}

VARIABLES roomIdToState, sids, closed, opened, last, emits, pre, deleted, nEvents,
          creator, announced

vars == <<roomIdToState, sids, closed, opened, last, emits, pre, deleted, nEvents,
          creator, announced>>

\* ---- helpers --------------------------------------------------------------
\* roomIdToState.get(roomId): index of the entry, 0 when there is none
IndexOf(reg, rid) ==
    IF \E i \in 1..Len(reg) : reg[i].id = rid
    THEN CHOOSE i \in 1..Len(reg) : reg[i].id = rid
    ELSE 0

Has(reg, rid) == IndexOf(reg, rid) # 0

Get(reg, rid) == reg[IndexOf(reg, rid)]

Ids(players) == {players[i].id : i \in 1..Len(players)}

\* room.players.find((p) => p.id === socket.id): index of first match, 0 if none
FindPlayer(players, c) ==
    IF \E i \in 1..Len(players) : players[i].id = c
    THEN CHOOSE i \in 1..Len(players) :
            /\ players[i].id = c
            /\ \A j \in 1..(i - 1) : players[j].id # c
    ELSE 0

\* name || 'Player'
NameOr(name) == IF name = "" THEN DefaultName ELSE name

\* { status: room.status, players: room.players.map(...) }
RoomUpdate(room) == [status |-> room.status, players |-> room.players]

\* sockets io.to(roomId) delivers to: the adapter's members of the room
Members(s, rid) == {c \in Conns : rid \in s[c]}

\* socket.emit(ev, data): to the one socket; room is "" (not room-addressed)
ToSocket(c, ev, data) == [to |-> {c}, room |-> "", ev |-> ev, data |-> data]

\* io.to(roomId).emit(ev, data): to every member of the adapter room
ToRoom(s, rid, ev, data) == [to |-> Members(s, rid), room |-> rid, ev |-> ev, data |-> data]

NoData == [none |-> TRUE]

\* payload of the latest roomUpdate broadcast to each room of the registry reg2,
\* after a handler that made the emit calls msgs
Announce(ann, msgs, reg2) ==
    [rid \in RoomIds |->
        LET hits == {i \in 1..Len(msgs) : msgs[i].ev = "roomUpdate" /\ msgs[i].room = rid}
        IN  IF ~Has(reg2, rid) THEN NoData
            ELSE IF hits = {} THEN ann[rid]
            ELSE msgs[CHOOSE i \in hits : \A j \in hits : j <= i].data]

Init ==
    /\ roomIdToState = <<>>
    /\ sids = [c \in Conns |-> {}]
    /\ closed = {}
    /\ opened = 0
    /\ last = [op |-> "none", conn |-> 0, roomId |-> "", data |-> NoData]
    /\ emits = <<>>
    /\ pre = <<>>
    /\ deleted = {}
    /\ nEvents = 0
    /\ creator = [rid \in RoomIds |-> 0]
    /\ announced = [rid \in RoomIds |-> NoData]

\* io.on('connection'): socket ids are opaque and unique, so sockets are
\* numbered in the order in which their first event arrives; the connection
\* callback itself only registers the handlers below.
Accept(c) ==
    /\ c <= opened + 1
    /\ opened' = IF c > opened THEN c ELSE opened

\* an inbound event of an open socket is dispatched to its handler
Dispatch(c, op, rid, data) ==
    /\ Accept(c)
    /\ c \notin closed
    /\ nEvents < MaxEvents
    /\ nEvents' = nEvents + 1
    /\ last' = [op |-> op, conn |-> c, roomId |-> rid, data |-> data]
    /\ pre' = roomIdToState

\* ---- joinRoom -------------------------------------------------------------
\* registry after lines 18-25: the entry is created when it is missing
Ensure(reg, rid) ==
    IF Has(reg, rid) THEN reg
    ELSE Append(reg, [id |-> rid, status |-> "waiting", players |-> <<>>])

\* variant: the duplicate test left out
JoinBranch_NoDupCheck(reg, c, rid) ==
    IF rid = "" THEN "noRoomId"
    ELSE IF Len(Get(Ensure(reg, rid), rid).players) >= MaxPlayers THEN "full"
    ELSE "add"

\* variant: the capacity test made before the duplicate test
JoinBranch_FullFirst(reg, c, rid) ==
    IF rid = "" THEN "noRoomId"
    ELSE IF Len(Get(Ensure(reg, rid), rid).players) >= MaxPlayers THEN "full"
    ELSE IF FindPlayer(Get(Ensure(reg, rid), rid).players, c) # 0 THEN "dup"
    ELSE "add"

\* variant: the capacity test written as > instead of >=
JoinBranch_OffByOne(reg, c, rid) ==
    IF rid = "" THEN "noRoomId"
    ELSE IF FindPlayer(Get(Ensure(reg, rid), rid).players, c) # 0 THEN "dup"
    ELSE IF Len(Get(Ensure(reg, rid), rid).players) > MaxPlayers THEN "full"
    ELSE "add"

\* which return path of the handler a request takes
JoinBranch(reg, c, rid) ==
    IF rid = "" THEN "noRoomId"
    ELSE IF FindPlayer(Get(Ensure(reg, rid), rid).players, c) # 0 THEN "dup"
    ELSE IF Len(Get(Ensure(reg, rid), rid).players) >= MaxPlayers THEN "full"
    ELSE "add"

\* variant: the new player is put at the front of the list (unshift)
JoinRegistry_Prepend(reg, c, rid, name) ==
    LET b == JoinBranch(reg, c, rid)
        reg1 == Ensure(reg, rid)
        i == IndexOf(reg1, rid)
    IN  CASE b = "noRoomId" -> reg
          [] b = "dup" ->
                [reg1 EXCEPT ![i].players[FindPlayer(reg1[i].players, c)].name = NameOr(name)]
          [] b = "full" -> reg1
          [] b = "add" ->
                [reg1 EXCEPT ![i].players = <<[id |-> c, name |-> NameOr(name)]>> \o @,
                             ![i].status = IF @ # "playing" THEN "waiting" ELSE @]

\* variant: a join always resets the status to 'waiting'
JoinRegistry_ResetStatus(reg, c, rid, name) ==
    LET b == JoinBranch(reg, c, rid)
        reg1 == Ensure(reg, rid)
        i == IndexOf(reg1, rid)
    IN  CASE b = "noRoomId" -> reg
          [] b = "dup" ->
                [reg1 EXCEPT ![i].players[FindPlayer(reg1[i].players, c)].name = NameOr(name)]
          [] b = "full" -> reg1
          [] b = "add" ->
                [reg1 EXCEPT ![i].players = Append(@, [id |-> c, name |-> NameOr(name)]),
                             ![i].status = "waiting"]

JoinRegistry(reg, c, rid, name) ==
    LET b == JoinBranch(reg, c, rid)
        reg1 == Ensure(reg, rid)
        i == IndexOf(reg1, rid)
    IN  CASE b = "noRoomId" -> reg
          [] b = "dup" ->
                [reg1 EXCEPT ![i].players[FindPlayer(reg1[i].players, c)].name = NameOr(name)]
          [] b = "full" -> reg1
          [] b = "add" ->
                [reg1 EXCEPT ![i].players = Append(@, [id |-> c, name |-> NameOr(name)]),
                             ![i].status = IF @ # "playing" THEN "waiting" ELSE @]

\* variant: socket.join(roomId) called before the capacity test
JoinSids_Always(reg, s, c, rid) ==
    IF JoinBranch(reg, c, rid) \in {"dup", "full", "add"}
    THEN [s EXCEPT ![c] = @ \cup {rid}]
    ELSE s

\* socket.join(roomId) on the dup and add paths
JoinSids(reg, s, c, rid) ==
    IF JoinBranch(reg, c, rid) \in {"dup", "add"}
    THEN [s EXCEPT ![c] = @ \cup {rid}]
    ELSE s

\* variant: the add path announces with socket.to(roomId), which leaves the
\* joining socket out
JoinEmits_SocketTo(reg, reg2, s2, c, rid) ==
    LET b == JoinBranch(reg, c, rid)
    IN  CASE b = "noRoomId" -> <<>>
          [] b = "dup" ->
                << ToSocket(c, "roomUpdate", RoomUpdate(Get(reg2, rid))),
                   ToRoom(s2, rid, "roomUpdate", RoomUpdate(Get(reg2, rid))) >>
          [] b = "full" -> << ToSocket(c, "roomFull", NoData) >>
          [] b = "add" ->
                << [to |-> Members(s2, rid) \ {c}, room |-> rid, ev |-> "roomUpdate",
                    data |-> RoomUpdate(Get(reg2, rid))] >>

JoinEmits(reg, reg2, s2, c, rid) ==
    LET b == JoinBranch(reg, c, rid)
    IN  CASE b = "noRoomId" -> <<>>
          [] b = "dup" ->
                << ToSocket(c, "roomUpdate", RoomUpdate(Get(reg2, rid))),
                   ToRoom(s2, rid, "roomUpdate", RoomUpdate(Get(reg2, rid))) >>
          [] b = "full" -> << ToSocket(c, "roomFull", NoData) >>
          [] b = "add" -> << ToRoom(s2, rid, "roomUpdate", RoomUpdate(Get(reg2, rid))) >>

JoinRoom(c, rid, name) ==
    /\ Dispatch(c, "joinRoom", rid, [name |-> name])
    /\ roomIdToState' = JoinRegistry(roomIdToState, c, rid, name)
    /\ sids' = JoinSids(roomIdToState, sids, c, rid)
    /\ emits' = JoinEmits(roomIdToState, roomIdToState', sids', c, rid)
    /\ deleted' = deleted \ {rid}
    /\ creator' = IF rid \in RoomIds /\ ~Has(roomIdToState, rid)
                  THEN [creator EXCEPT ![rid] = c]
                  ELSE creator
    /\ announced' = Announce(announced, emits', roomIdToState')
    /\ UNCHANGED closed

\* ---- startGame ------------------------------------------------------------
IsCreator(room, c) == Len(room.players) > 0 /\ room.players[1].id = c

\* variant: no early return for a room that is not in the registry
\* (isCreator computed as room?.players[0]?.id === socket.id)
StartBranch_NoRoomCheck(reg, c, rid) ==
    IF ~Has(reg, rid) THEN "notCreator"
    ELSE IF ~IsCreator(Get(reg, rid), c) THEN "notCreator"
    ELSE IF Len(Get(reg, rid).players) < MinPlayers THEN "tooFew"
    ELSE "start"

\* variant: the creator test left out
StartBranch_AnyPlayer(reg, c, rid) ==
    IF ~Has(reg, rid) THEN "noRoom"
    ELSE IF Len(Get(reg, rid).players) < MinPlayers THEN "tooFew"
    ELSE "start"

\* which return path of the handler a request takes
StartBranch(reg, c, rid) ==
    IF ~Has(reg, rid) THEN "noRoom"
    ELSE IF ~IsCreator(Get(reg, rid), c) THEN "notCreator"
    ELSE IF Len(Get(reg, rid).players) < MinPlayers THEN "tooFew"
    ELSE "start"

\* variant: the status is written to the first entry of the registry
StartRegistry_FirstEntry(reg, c, rid) ==
    IF StartBranch(reg, c, rid) = "start"
    THEN [reg EXCEPT ![1].status = "playing"]
    ELSE reg

StartRegistry(reg, c, rid) ==
    IF StartBranch(reg, c, rid) = "start"
    THEN [reg EXCEPT ![IndexOf(reg, rid)].status = "playing"]
    ELSE reg

\* variant: the start path broadcasts gameStarted only
StartEmits_NoUpdate(reg, reg2, s, c, rid) ==
    LET b == StartBranch(reg, c, rid)
    IN  CASE b = "noRoom" -> <<>>
          [] b = "notCreator" ->
                << ToSocket(c, "error", [message |-> "Only the room creator can start the game"]) >>
          [] b = "tooFew" ->
                << ToSocket(c, "error", [message |-> "Need at least 2 players to start"]) >>
          [] b = "start" -> << ToRoom(s, rid, "gameStarted", NoData) >>

\* variant: the two broadcasts of the start path in the other order
StartEmits_Swapped(reg, reg2, s, c, rid) ==
    LET b == StartBranch(reg, c, rid)
    IN  CASE b = "noRoom" -> <<>>
          [] b = "notCreator" ->
                << ToSocket(c, "error", [message |-> "Only the room creator can start the game"]) >>
          [] b = "tooFew" ->
                << ToSocket(c, "error", [message |-> "Need at least 2 players to start"]) >>
          [] b = "start" ->
                << ToRoom(s, rid, "roomUpdate", RoomUpdate(Get(reg2, rid))),
                   ToRoom(s, rid, "gameStarted", NoData) >>

StartEmits(reg, reg2, s, c, rid) ==
    LET b == StartBranch(reg, c, rid)
    IN  CASE b = "noRoom" -> <<>>
          [] b = "notCreator" ->
                << ToSocket(c, "error", [message |-> "Only the room creator can start the game"]) >>
          [] b = "tooFew" ->
                << ToSocket(c, "error", [message |-> "Need at least 2 players to start"]) >>
          [] b = "start" ->
                << ToRoom(s, rid, "gameStarted", NoData),
                   ToRoom(s, rid, "roomUpdate", RoomUpdate(Get(reg2, rid))) >>

StartGame(c, rid) ==
    /\ Dispatch(c, "startGame", rid, NoData)
    /\ roomIdToState' = StartRegistry(roomIdToState, c, rid)
    /\ emits' = StartEmits(roomIdToState, roomIdToState', sids, c, rid)
    /\ announced' = Announce(announced, emits', roomIdToState')
    /\ UNCHANGED <<sids, closed, deleted, creator>>

\* ---- relay events ---------------------------------------------------------
\* variant: socket.to(roomId).emit, which leaves the sender out
Relay_SocketTo(s, c, rid, ev, data) ==
    << [to |-> Members(s, rid) \ {c}, room |-> rid, ev |-> ev, data |-> data] >>

\* io.to(roomId).emit(ev, data) as called by socket c's handler
Relay(s, c, rid, ev, data) == << ToRoom(s, rid, ev, data) >>

\* playerChoice returns early when the room is not in the registry and relays
\* the payload's playerId; the td_* handlers emit unconditionally.
PlayerChoiceData(c, data) == [playerId |-> data.playerId, choice |-> data.choice]

PlayerChoiceEmits(reg, s, c, rid, data) ==
    IF ~Has(reg, rid) THEN <<>>
    ELSE Relay(s, c, rid, "playerChoice", PlayerChoiceData(c, data))

PlayerChoice(c, rid, playerId, choice) ==
    /\ Dispatch(c, "playerChoice", rid, [playerId |-> playerId, choice |-> choice])
    /\ emits' = PlayerChoiceEmits(roomIdToState, sids, c, rid, last'.data)
    /\ UNCHANGED <<roomIdToState, sids, closed, deleted, creator, announced>>

TdChoice(c, rid, choice) ==
    /\ Dispatch(c, "td_choice", rid, [choice |-> choice])
    /\ emits' = Relay(sids, c, rid, "td_choice", [playerId |-> c, choice |-> choice])
    /\ UNCHANGED <<roomIdToState, sids, closed, deleted, creator, announced>>

TdChallenge(c, rid, loserId, winnerId, text) ==
    /\ Dispatch(c, "td_challenge", rid,
                [loserId |-> loserId, winnerId |-> winnerId, text |-> text])
    /\ emits' = Relay(sids, c, rid, "td_challenge",
                      [loserId |-> loserId, winnerId |-> winnerId, text |-> text])
    /\ UNCHANGED <<roomIdToState, sids, closed, deleted, creator, announced>>

TdComplete(c, rid) ==
    /\ Dispatch(c, "td_complete", rid, NoData)
    /\ emits' = Relay(sids, c, rid, "td_complete", NoData)
    /\ UNCHANGED <<roomIdToState, sids, closed, deleted, creator, announced>>

TdToggle(c, rid, enabled) ==
    /\ Dispatch(c, "td_toggle", rid, [enabled |-> enabled])
    /\ emits' = Relay(sids, c, rid, "td_toggle", [enabled |-> enabled])
    /\ UNCHANGED <<roomIdToState, sids, closed, deleted, creator, announced>>

TdResponse(c, rid, loserId, response) ==
    /\ Dispatch(c, "td_response", rid, [loserId |-> loserId, response |-> response])
    /\ emits' = Relay(sids, c, rid, "td_response",
                      [loserId |-> loserId, response |-> response])
    /\ UNCHANGED <<roomIdToState, sids, closed, deleted, creator, announced>>

\* ---- disconnect -----------------------------------------------------------
\* room.players.filter((p) => p.id !== socket.id)
Without(players, c) == SelectSeq(players, LAMBDA p : p.id # c)

\* variant: the leaving player's slot is filled with the last player
LeaveRoom_SwapRemove(room, c) ==
    LET k == FindPlayer(room.players, c)
        n == Len(room.players)
    IN  IF k = 0 THEN room
        ELSE [room EXCEPT !.players = SubSeq([room.players EXCEPT ![k] = room.players[n]], 1, n - 1),
                          !.status = "waiting"]

\* variant: status is reset in every room, also where nobody left
LeaveRoom_AlwaysWaiting(room, c) ==
    [room EXCEPT !.players = Without(room.players, c), !.status = "waiting"]

\* variant: status is not reset when a player leaves
LeaveRoom_KeepStatus(room, c) ==
    [room EXCEPT !.players = Without(room.players, c)]

\* one iteration of the loop body on an entry that stays in the registry
LeaveRoom(room, c) ==
    IF Len(Without(room.players, c)) # Len(room.players)
    THEN [room EXCEPT !.players = Without(room.players, c), !.status = "waiting"]
    ELSE room

\* variant: the loop stops at the first room that held the socket
DisconnectRegistry_FirstOnly(reg, c) ==
    LET first == IF \E i \in 1..Len(reg) : c \in Ids(reg[i].players)
                 THEN CHOOSE i \in 1..Len(reg) :
                         /\ c \in Ids(reg[i].players)
                         /\ \A j \in 1..(i - 1) : c \notin Ids(reg[j].players)
                 ELSE 0
        done == [i \in 1..Len(reg) |-> IF i = first THEN LeaveRoom(reg[i], c) ELSE reg[i]]
    IN  SelectSeq(done, LAMBDA room : Len(room.players) # 0)

\* variant: the emptied entry is not deleted
DisconnectRegistry_NoDelete(reg, c) ==
    [i \in 1..Len(reg) |-> LeaveRoom(reg[i], c)]

DisconnectRegistry(reg, c) ==
    LET kept == SelectSeq(reg, LAMBDA room : Len(Without(room.players, c)) # 0)
    IN  [i \in 1..Len(kept) |-> LeaveRoom(kept[i], c)]

\* variant: roomUpdate for every entry that stays, changed or not
DisconnectEmits_Always(reg, s2, c) ==
    LET hit == SelectSeq(reg, LAMBDA room : Len(Without(room.players, c)) # 0)
    IN  [i \in 1..Len(hit) |->
            ToRoom(s2, hit[i].id, "roomUpdate", RoomUpdate(LeaveRoom(hit[i], c)))]

DisconnectEmits(reg, s2, c) ==
    LET hit == SelectSeq(reg, LAMBDA room :
                    /\ Len(Without(room.players, c)) # 0
                    /\ Len(Without(room.players, c)) # Len(room.players))
    IN  [i \in 1..Len(hit) |->
            ToRoom(s2, hit[i].id, "roomUpdate", RoomUpdate(LeaveRoom(hit[i], c)))]

DisconnectDeleted(reg, c) ==
    {reg[i].id : i \in {j \in 1..Len(reg) : Len(Without(reg[j].players, c)) = 0}}

\* The transport has already taken the socket out of every adapter room when
\* the 'disconnect' callback runs.  The callback is also run for a socket that
\* is already closed (a repeated delivery of the same disconnect).
OnDisconnect(c) ==
    /\ last' = [op |-> "disconnect", conn |-> c, roomId |-> "",
                data |-> [again |-> c \in closed]]
    /\ pre' = roomIdToState
    /\ closed' = closed \cup {c}
    /\ sids' = [sids EXCEPT ![c] = {}]
    /\ roomIdToState' = DisconnectRegistry(roomIdToState, c)
    /\ emits' = DisconnectEmits(roomIdToState, sids', c)
    /\ deleted' = deleted \cup DisconnectDeleted(roomIdToState, c)
    /\ creator' = [rid \in RoomIds |->
                     IF rid \in DisconnectDeleted(roomIdToState, c) THEN 0 ELSE creator[rid]]
    /\ announced' = Announce(announced, emits', roomIdToState')

Disconnect(c) ==
    /\ Accept(c)
    /\ nEvents < MaxEvents
    /\ nEvents' = nEvents + 1
    /\ OnDisconnect(c)

\* The channel of a socket that is in a room closes (client close or ping
\* timeout) and the transport delivers its one 'disconnect'; this happens
\* whatever number of events the run has handled.
TransportClose(c) ==
    /\ c \notin closed
    /\ \E i \in 1..Len(roomIdToState) : c \in Ids(roomIdToState[i].players)
    /\ OnDisconnect(c)
    /\ UNCHANGED <<opened, nEvents>>

Next ==
    \/ \E c \in Conns, rid \in RoomInputs : \E name \in NamesOf(c) : JoinRoom(c, rid, name)
    \/ \E c \in Conns, rid \in RoomIds : StartGame(c, rid)
    \/ \E c \in RelaySenders, rid \in RelayRooms, p \in PayloadIds, ch \in Choices :
          PlayerChoice(c, rid, p, ch)
    \/ \E c \in RelaySenders, rid \in RelayRooms, ch \in TdChoices : TdChoice(c, rid, ch)
    \/ \E c \in RelaySenders, rid \in RelayRooms, l \in TdIds, w \in TdIds, t \in Texts :
          TdChallenge(c, rid, l, w, t)
    \/ \E c \in RelaySenders, rid \in RelayRooms : TdComplete(c, rid)
    \/ \E c \in RelaySenders, rid \in RelayRooms, e \in Flags : TdToggle(c, rid, e)
    \/ \E c \in RelaySenders, rid \in RelayRooms, l \in TdIds, t \in Texts :
          TdResponse(c, rid, l, t)
    \/ \E c \in Conns : Disconnect(c)

Spec == Init /\ [][Next]_vars

\* Runs in which every socket that is in a room eventually disconnects: after
\* FairEvents inbound events only the closing of channels remains.
FairNext ==
    \/ nEvents < FairEvents /\ Next
    \/ \E c \in Conns : TransportClose(c)

FairSpec ==
    /\ Init
    /\ [][FairNext]_vars
    /\ \A c \in Conns : WF_vars(TransportClose(c))

\* ---- vocabulary of the properties -------------------------------------------
\* the entry of room rid before the last handler ran / now
Before(rid) == Get(pre, rid)
Now(rid) == Get(roomIdToState, rid)

\* rooms whose player list holds socket c
RoomsOf(reg, c) == {rid \in RoomIds : Has(reg, rid) /\ c \in Ids(Get(reg, rid).players)}

Events(msgs) == {msgs[i].ev : i \in 1..Len(msgs)}

\* sockets some message of msgs is delivered to
Receivers(msgs) == UNION {msgs[i].to : i \in 1..Len(msgs)}

\* the last event was a joinRoom of a socket that was not in the named room,
\* which had MaxPlayers players
JoinedFull ==
    /\ last.op = "joinRoom"
    /\ Has(pre, last.roomId)
    /\ last.conn \notin Ids(Before(last.roomId).players)
    /\ Len(Before(last.roomId).players) = 4

\* C1: no room's player list ever has more than 4 entries, and a joinRoom by a
\* socket that is not in a room that has 4 players sends roomFull to the
\* requester only and leaves the whole registry unchanged.
C1_Capacity ==
    /\ \A i \in 1..Len(roomIdToState) : Len(roomIdToState[i].players) <= 4
    /\ JoinedFull =>
          /\ emits = << ToSocket(last.conn, "roomFull", NoData) >>
          /\ roomIdToState = pre

C1_Witness ==
    /\ JoinedFull
    /\ Len(Now(last.roomId).players) = 4
    /\ Events(emits) = {"roomFull"}

\* C2: between handlers every entry of the registry has at least one player, a
\* room identifier has at most one entry, and every room some socket has joined
\* and not left (an adapter room with a member) has its entry.
C2_RoomIffPlayers ==
    /\ \A i \in 1..Len(roomIdToState) : Len(roomIdToState[i].players) > 0
    /\ \A i, j \in 1..Len(roomIdToState) :
          roomIdToState[i].id = roomIdToState[j].id => i = j
    /\ \A rid \in RoomIds : Members(sids, rid) # {} => Has(roomIdToState, rid)

\* a disconnect emptied and removed one room while another room stays
C2_Witness ==
    /\ last.op = "disconnect"
    /\ \E rid \in RoomIds :
          /\ Has(pre, rid)
          /\ Ids(Before(rid).players) = {last.conn}
          /\ ~Has(roomIdToState, rid)
    /\ Len(roomIdToState) > 0

\* the last event was a startGame naming a room of the registry
StartRequested == last.op = "startGame" /\ Has(pre, last.roomId)

\* the requester is the player at index 0 and the room has at least 2 players
StartHonored ==
    /\ Before(last.roomId).players[1].id = last.conn
    /\ Len(Before(last.roomId).players) >= 2

\* C3: a startGame naming a room of the registry sets the status to 'playing'
\* and broadcasts gameStarted to the room iff the requester is the player at
\* index 0 and the room has at least 2 players; otherwise the registry is
\* unchanged, nothing is addressed to the room and one error goes to the
\* requester only.
C3_StartGame ==
    StartRequested =>
       IF StartHonored
       THEN /\ Now(last.roomId).status = "playing"
            /\ Now(last.roomId).players = Before(last.roomId).players
            /\ \E i \in 1..Len(emits) :
                  /\ emits[i].ev = "gameStarted"
                  /\ emits[i].room = last.roomId
                  /\ emits[i].to = Ids(Now(last.roomId).players)
       ELSE /\ roomIdToState = pre
            /\ Len(emits) = 1
            /\ emits[1].ev = "error"
            /\ emits[1].room = ""
            /\ emits[1].to = {last.conn}

\* a waiting room is started by its creator
C3_Witness ==
    /\ StartRequested
    /\ StartHonored
    /\ Before(last.roomId).status = "waiting"
    /\ Now(last.roomId).status = "playing"
    /\ "gameStarted" \in Events(emits)

\* the last event changed the player count of room rid, which was 'playing'
\* and is still in the registry
CountChangedWhilePlaying(rid) ==
    /\ last.op \in {"joinRoom", "disconnect"}
    /\ Has(pre, rid)
    /\ Before(rid).status = "playing"
    /\ Has(roomIdToState, rid)
    /\ Len(Now(rid).players) # Len(Before(rid).players)

\* C4 as stated: a joinRoom or disconnect that changes the player count of a
\* 'playing' room (without emptying it) leaves the room 'waiting'.
C4_Original ==
    \A rid \in RoomIds : CountChangedWhilePlaying(rid) => Now(rid).status = "waiting"

\* C4 amended: a disconnect that changes the player count of a 'playing' room
\* (without emptying it) leaves the room 'waiting'; a joinRoom that adds a
\* player to a 'playing' room leaves it 'playing'.
C4_Amended ==
    \A rid \in RoomIds :
       CountChangedWhilePlaying(rid) =>
          Now(rid).status = IF last.op = "disconnect" THEN "waiting" ELSE "playing"

\* a player leaves a 'playing' room that keeps other players
C4_Witness ==
    \E rid \in RoomIds :
       /\ CountChangedWhilePlaying(rid)
       /\ last.op = "disconnect"
       /\ Now(rid).status = "waiting"

\* the last event was a joinRoom of a socket already in the named room
DupJoin ==
    /\ last.op = "joinRoom"
    /\ Has(pre, last.roomId)
    /\ last.conn \in Ids(Before(last.roomId).players)

\* C5: a joinRoom of a socket already in the room's list changes neither the
\* length nor the order of the list nor the status, changes nothing in the
\* registry but that player's name, and is answered with roomUpdate (to the
\* requester too), never roomFull, also when the room has 4 players.
C5_DuplicateJoin ==
    DupJoin =>
       LET i == IndexOf(pre, last.roomId)
           k == FindPlayer(pre[i].players, last.conn)
       IN  /\ Len(roomIdToState) = Len(pre)
           /\ \A j \in 1..Len(pre) : j # i => roomIdToState[j] = pre[j]
           /\ roomIdToState[i].id = pre[i].id
           /\ roomIdToState[i].status = pre[i].status
           /\ Len(roomIdToState[i].players) = Len(pre[i].players)
           /\ \A m \in 1..Len(pre[i].players) :
                 /\ roomIdToState[i].players[m].id = pre[i].players[m].id
                 /\ m # k => roomIdToState[i].players[m].name = pre[i].players[m].name
           /\ Events(emits) = {"roomUpdate"}
           /\ last.conn \in Receivers(emits)

\* a player of a room with 4 players joins it again under another name
C5_Witness ==
    /\ DupJoin
    /\ Len(Before(last.roomId).players) = 4
    /\ Now(last.roomId).players # Before(last.roomId).players
    /\ Events(emits) = {"roomUpdate"}

\* the last event was a startGame or relay event naming a room that a
\* disconnect deleted and no joinRoom has recreated
StaleEvent ==
    /\ last.op \in {"startGame"} \cup RelayOps
    /\ last.roomId \in deleted

\* C6: a disconnect that removes the last player of a room deletes the room,
\* and a later startGame or relay event naming it (before a joinRoom recreates
\* it) leaves the registry unchanged, reaches no socket and emits no error.
C6_StaleRoom ==
    /\ last.op = "disconnect" =>
          \A rid \in RoomIds :
             Has(pre, rid) /\ Ids(Before(rid).players) = {last.conn}
                => ~Has(roomIdToState, rid)
    /\ \A rid \in deleted : ~Has(roomIdToState, rid)
    /\ StaleEvent =>
          /\ roomIdToState = pre
          /\ Receivers(emits) = {}
          /\ "error" \notin Events(emits)

\* a stale event arrives while another room is live
C6_Witness ==
    /\ StaleEvent
    /\ Len(roomIdToState) > 0

\* the last event was a relay event naming a room of the registry
RelayedToRoom == last.op \in RelayOps /\ Has(pre, last.roomId)

\* C7: a relay event naming a room of the registry is emitted once, under its
\* own name, to exactly the sockets of that room's player list (the sender
\* among them when it is a player), and leaves the registry unchanged.
C7_Relay ==
    RelayedToRoom =>
       /\ roomIdToState = pre
       /\ Len(emits) = 1
       /\ emits[1].ev = last.op
       /\ emits[1].to = Ids(Now(last.roomId).players)

\* a player relays to a room it shares with another player
C7_Witness ==
    /\ RelayedToRoom
    /\ last.conn \in Ids(Now(last.roomId).players)
    /\ Len(Now(last.roomId).players) >= 2
    /\ last.conn \in Receivers(emits)

\* the last event was the disconnect of a socket that was already closed
DisconnectedAgain == last.op = "disconnect" /\ last.data.again

\* C8: a second disconnect of the same socket leaves the registry unchanged
\* and emits nothing.
C8_DisconnectIdempotent ==
    DisconnectedAgain => roomIdToState = pre /\ emits = <<>>

\* the repeated disconnect arrives while rooms are live
C8_Witness ==
    /\ DisconnectedAgain
    /\ Len(roomIdToState) > 0

\* C9 as stated: a socket is in the player list of at most one room.
C9_OneRoom ==
    \A c \in Conns : Cardinality(RoomsOf(roomIdToState, c)) <= 1

\* C10 as stated: a playerChoice delivered to a room carries the id of the
\* socket that sent the inbound playerChoice.
C10_Attribution ==
    \A i \in 1..Len(emits) :
       emits[i].ev = "playerChoice" /\ emits[i].to # {}
          => emits[i].data.playerId = last.conn

\* C11: the sockets a broadcast to room R reaches (the members of the adapter
\* room R) are exactly the sockets of R's player list, and no socket at all
\* when R is not in the registry.
C11_BroadcastTargets ==
    \A rid \in RoomIds :
       Members(sids, rid) =
          IF Has(roomIdToState, rid) THEN Ids(Now(rid).players) ELSE {}

\* a refused socket stays outside the adapter room of the full room
C11_Witness ==
    /\ JoinedFull
    /\ last.conn \notin Members(sids, last.roomId)
    /\ Cardinality(Members(sids, last.roomId)) = 4

\* the requester of the last joinRoom was sent a roomUpdate or a roomFull
JoinAnswered ==
    \E i \in 1..Len(emits) :
       /\ emits[i].ev \in {"roomUpdate", "roomFull"}
       /\ last.conn \in emits[i].to

C13_StartSequence ==
    StartRequested /\ StartHonored =>
       /\ Len(emits) = 2
       /\ emits[1].ev = "gameStarted"
       /\ emits[2].ev = "roomUpdate"
       /\ emits[2].data = [status |-> "playing", players |-> Now(last.roomId).players]
       /\ \A i \in 1..2 :
             /\ emits[i].room = last.roomId
             /\ emits[i].to = Ids(Now(last.roomId).players)

\* a room of three or more players is started
C13_Witness ==
    /\ StartRequested
    /\ StartHonored
    /\ Len(Now(last.roomId).players) >= 3
    /\ Len(emits) = 2

\* the last event was a joinRoom of a socket new to the named room, which was
\* 'playing' and had fewer than 4 players
JoinedPlaying ==
    /\ last.op = "joinRoom"
    /\ Has(pre, last.roomId)
    /\ last.conn \notin Ids(Before(last.roomId).players)
    /\ Before(last.roomId).status = "playing"
    /\ Len(Before(last.roomId).players) < 4

\* C14: a joinRoom of a new socket into a 'playing' room with fewer than 4
\* players appends the player, leaves the status 'playing' and broadcasts a
\* roomUpdate that reports 'playing'.
C14_LateJoin ==
    JoinedPlaying =>
       /\ Now(last.roomId).players =
             Append(Before(last.roomId).players,
                    [id |-> last.conn, name |-> NameOr(last.data.name)])
       /\ Now(last.roomId).status = "playing"
       /\ Len(emits) = 1
       /\ emits[1].ev = "roomUpdate"
       /\ emits[1].room = last.roomId
       /\ emits[1].data.status = "playing"

\* a third player joins a started game
C14_Witness ==
    /\ JoinedPlaying
    /\ Len(Now(last.roomId).players) = 3
    /\ Now(last.roomId).status = "playing"

\* C15: while the socket whose joinRoom created a room has not disconnected,
\* it is the player at index 0 of that room, and no other socket's startGame
\* for that room is honored.
C15_CreatorFirst ==
    /\ \A rid \in RoomIds :
          Has(roomIdToState, rid) =>
             /\ creator[rid] # 0
             /\ creator[rid] \notin closed => Now(rid).players[1].id = creator[rid]
    /\ (/\ last.op = "startGame"
        /\ "gameStarted" \in Events(emits)
        /\ creator[last.roomId] \notin closed) => last.conn = creator[last.roomId]

\* another player of a room whose creator is connected asks to start and is
\* refused
C15_Witness ==
    /\ StartRequested
    /\ creator[last.roomId] \notin closed
    /\ last.conn # creator[last.roomId]
    /\ last.conn \in Ids(Now(last.roomId).players)
    /\ Now(last.roomId).players[1].id = creator[last.roomId]
    /\ Events(emits) = {"error"}

\* ids of a player list, in list order
IdSeq(players) == [i \in 1..Len(players) |-> players[i].id]

\* the ids of a player list that are in set S, in list order
Restrict(players, S) == SelectSeq(IdSeq(players), LAMBDA x : x \in S)

\* C16: no event reorders a player list: the players that are in a room's list
\* before and after an event are in the same relative order, and a player the
\* event added is the last entry.
C16_JoinOrder ==
    \A rid \in RoomIds :
       Has(pre, rid) /\ Has(roomIdToState, rid) =>
          LET common == Ids(Before(rid).players) \cap Ids(Now(rid).players)
          IN  /\ Restrict(Before(rid).players, common) = Restrict(Now(rid).players, common)
              /\ \A i \in 1..Len(Now(rid).players) :
                    Now(rid).players[i].id \notin Ids(Before(rid).players)
                       => i = Len(Now(rid).players)

\* the first of three or more players leaves
C16_Witness ==
    /\ last.op = "disconnect"
    /\ \E rid \in RoomIds :
          /\ Has(pre, rid)
          /\ Len(Before(rid).players) >= 3
          /\ Before(rid).players[1].id = last.conn
          /\ Has(roomIdToState, rid)
          /\ Len(Now(rid).players) = Len(Before(rid).players) - 1

\* indexes of the messages of the last handler that were addressed to room rid
AddressedTo(rid) == {i \in 1..Len(emits) : emits[i].room = rid}

\* C17: after disconnect(c), c is in no player list; a room that held c and
\* keeps players is 'waiting', holds the other players in their order and was
\* sent exactly one roomUpdate with that roster, reaching those players only;
\* a room that held only c is gone; a room that did not hold c is unchanged
\* and was sent nothing.
C17_DisconnectEffect ==
    last.op = "disconnect" =>
       /\ RoomsOf(roomIdToState, last.conn) = {}
       /\ \A i \in 1..Len(emits) : Has(pre, emits[i].room)
       /\ \A rid \in RoomIds :
             Has(pre, rid) =>
                IF last.conn \notin Ids(Before(rid).players)
                THEN /\ Has(roomIdToState, rid)
                     /\ Now(rid) = Before(rid)
                     /\ AddressedTo(rid) = {}
                ELSE IF Ids(Before(rid).players) = {last.conn}
                THEN /\ ~Has(roomIdToState, rid)
                     /\ AddressedTo(rid) = {}
                ELSE /\ Has(roomIdToState, rid)
                     /\ Now(rid).status = "waiting"
                     /\ Now(rid).players =
                           SelectSeq(Before(rid).players, LAMBDA p : p.id # last.conn)
                     /\ Cardinality(AddressedTo(rid)) = 1
                     /\ \A i \in AddressedTo(rid) :
                           /\ emits[i].ev = "roomUpdate"
                           /\ emits[i].data = [status |-> "waiting",
                                               players |-> Now(rid).players]
                           /\ emits[i].to = Ids(Now(rid).players)
                           /\ last.conn \notin emits[i].to

\* a socket leaves a room that keeps players while another room does not hold it
C17_Witness ==
    /\ last.op = "disconnect"
    /\ \E ra, rb \in RoomIds :
          /\ Has(pre, ra) /\ Has(pre, rb)
          /\ last.conn \in Ids(Before(ra).players)
          /\ Has(roomIdToState, ra)
          /\ last.conn \notin Ids(Before(rb).players)
          /\ AddressedTo(ra) # {}

\* the last handler changed or created the entry of room rid
Touched(rid) ==
    /\ Has(roomIdToState, rid)
    /\ ~Has(pre, rid) \/ Now(rid) # Before(rid)

\* C18: a handler that changes the roster, a name or the status of a room that
\* stays in the registry broadcasts a roomUpdate to it, and between handlers
\* the latest roomUpdate broadcast to a room of the registry carries the
\* room's current status and player list.
C18_Announced ==
    \A rid \in RoomIds :
       /\ Touched(rid) =>
             \E i \in AddressedTo(rid) : emits[i].ev = "roomUpdate"
       /\ Has(roomIdToState, rid) =>
             announced[rid] = [status |-> Now(rid).status, players |-> Now(rid).players]

\* a duplicate join changed a name in a started room
C18_Witness ==
    /\ DupJoin
    /\ Touched(last.roomId)
    /\ Now(last.roomId).status = "playing"
    /\ announced[last.roomId].players = Now(last.roomId).players

\* C19: handlers being atomic, no player list holds the same socket twice and
\* no socket that has disconnected is in any player list.
C19_NoDuplicateNoLostRemoval ==
    /\ \A i \in 1..Len(roomIdToState) :
          Cardinality(Ids(roomIdToState[i].players)) = Len(roomIdToState[i].players)
    /\ \A c \in closed : RoomsOf(roomIdToState, c) = {}

\* a duplicate join arrives in a room whose creator has disconnected
C19_Witness ==
    /\ DupJoin
    /\ creator[last.roomId] \in closed
    /\ Len(Now(last.roomId).players) >= 2

\* the registry as a mapping from room id to status and player list
AsMap(reg) ==
    [rid \in {reg[i].id : i \in 1..Len(reg)} |->
        [status |-> Get(reg, rid).status, players |-> Get(reg, rid).players]]

\* sockets whose events can be dispatched now
Open == {c \in Conns : c \notin closed /\ c <= opened + 1}

\* joinRoom, startGame and relay requests naming room rid
Requests(rid) ==
    UNION {{[op |-> "joinRoom", conn |-> c, roomId |-> rid, name |-> n] : n \in NamesOf(c)} :
              c \in Open}
    \cup {[op |-> "startGame", conn |-> c, roomId |-> rid, name |-> ""] : c \in Open}
    \cup {[op |-> "td_complete", conn |-> c, roomId |-> rid, name |-> ""] :
              c \in Open \cap RelaySenders}

\* registry after the handler of request q
Apply(reg, q) ==
    CASE q.op = "joinRoom" -> JoinRegistry(reg, q.conn, q.roomId, q.name)
      [] q.op = "startGame" -> StartRegistry(reg, q.conn, q.roomId)
      [] OTHER -> reg

\* C20: a joinRoom, startGame or relay event naming room R leaves every other
\* room's entry as it was, and two such events naming different rooms, handled
\* from a state that leaves room for both, give the same status and player
\* list for every room in either order.
C20_RoomsIndependent ==
    /\ last.op \in {"joinRoom", "startGame"} \cup RelayOps =>
          \A rid \in RoomIds \ {last.roomId} :
             /\ Has(roomIdToState, rid) <=> Has(pre, rid)
             /\ Has(pre, rid) => Now(rid) = Before(rid)
    /\ nEvents + 2 <= MaxEvents =>
          \A pair \in {P \in SUBSET RoomIds : Cardinality(P) = 2} :
             LET ra == CHOOSE r \in pair : TRUE
                 rb == CHOOSE r \in pair : r # ra
             IN  \A qa \in Requests(ra), qb \in Requests(rb) :
                    AsMap(Apply(Apply(roomIdToState, qa), qb))
                       = AsMap(Apply(Apply(roomIdToState, qb), qa))

\* a joinRoom creates a second room next to one that has two players
C20_Witness ==
    /\ last.op = "joinRoom"
    /\ ~Has(pre, last.roomId)
    /\ Len(roomIdToState) = 2
    /\ \E rid \in RoomIds \ {last.roomId} :
          Has(pre, rid) /\ Len(Before(rid).players) = 2
    /\ nEvents + 2 <= MaxEvents

\* every socket that is in some player list has disconnected
AllListedClosed ==
    \A i \in 1..Len(roomIdToState) : Ids(roomIdToState[i].players) \subseteq closed

\* a room that was in the registry before the last handler and is not in it
\* now was emptied by a disconnect of its only player
RemovedOnlyByLastLeave ==
    \A rid \in RoomIds :
       Has(pre, rid) /\ ~Has(roomIdToState, rid) =>
          /\ last.op = "disconnect"
          /\ Ids(Before(rid).players) = {last.conn}

\* C21: no room is leaked.  When every socket that is in a room eventually
\* disconnects, a registry that holds rooms eventually becomes empty; whenever
\* every socket that has joined has disconnected (a socket that joined is in
\* a player list or has disconnected, so: whenever every listed socket has
\* disconnected) the registry is empty; and a room leaves the registry only by
\* a disconnect that empties its player list.
C21_NoLeak ==
    /\ [](AllListedClosed => roomIdToState = <<>>)
    /\ []RemovedOnlyByLastLeave
    /\ (roomIdToState # <<>>) ~> (roomIdToState = <<>>)

\* the last socket of two rooms closes after the event budget and the registry
\* is empty again
C21_Witness ==
    /\ last.op = "disconnect"
    /\ nEvents = FairEvents
    /\ Len(pre) = 2
    /\ roomIdToState = <<>>
    /\ deleted = RoomIds
====
